---- MODULE Spec2Model ----
(***************************************************************************)
(* ProbeBot: the trading ledger (TradingBot), the order executor           *)
(* (OrderExecutor), the price tracker (MarketData) and the tick loop of    *)
(* the controller (App.update), as one state machine.                      *)
(*                                                                         *)
(* JavaScript runs one job at a time: a handler runs without interruption  *)
(* up to its next await of a network call.  Every action below is one such *)
(* uninterrupted run.  Numbers are exact: money and quantities are         *)
(* rationals <<numerator, denominator>>, prices are integers.              *)
(***************************************************************************)
EXTENDS Integers, Sequences, FiniteSets, TLC

\* ------------------------------------------------------------------------
\* Bounds of the model
\* ------------------------------------------------------------------------
\* exchange orders accepted in one run
MaxOrders == 2
\* ticks of the controller that may be in progress at the same time
NumProcs == 2
\* price messages delivered by the stream in one run
MaxPriceUpdates == 2
\* configuration updates in one run
MaxConfigUpdates == 1
\* invocations of App.emergencyStop in one run
MaxEmergencyStops == 1

Procs == 1..NumProcs

\* ------------------------------------------------------------------------
\* config.js
\* ------------------------------------------------------------------------
INITIAL_BALANCE == 10000
BUY_THRESHOLD == 2
SELL_THRESHOLD == 3
TRADE_AMOUNT_PERCENT == 25
MIN_TRADE_AMOUNT == 1
MAX_POSITIONS == 4
QUOTE_CURRENCY == "USDT"
STATIC_TOKENS == {"BTC"}

\* tokens the exchange may report as top gainers
GainerTokens == {"DOGE"}
Tokens == STATIC_TOKENS \cup GainerTokens
\* insertion order of MarketData.monitoredTokens: static tokens first
TokenOrder == <<"BTC", "DOGE">>

\* last prices in the ticker snapshot read at initialisation
TickerPrices == {100}
\* prices the stream delivers afterwards: 100 -> 102 is a rise of exactly
\* BUY_THRESHOLD percent, 102 -> 96 and 100 -> 96 are drops of more than
\* SELL_THRESHOLD percent
Prices == {96, 102}

getFullSymbol(token) == <<token, QUOTE_CURRENCY>>

getBaseToken(symbol) == symbol[1]

Symbols == {getFullSymbol(t) : t \in Tokens}

\* ------------------------------------------------------------------------
\* Exact arithmetic
\* ------------------------------------------------------------------------
\* The operators below bind each operand once (x \in {e}), so that it is
\* evaluated once however often it is used.
Abs(n) == IF n < 0 THEN -n ELSE n

RECURSIVE GCD(_, _)
GCD(a, b) ==
    IF b = 0 THEN a
    ELSE CHOOSE g \in {GCD(y, r) : y \in {b}, r \in {a % b}} : TRUE

\* the fraction n / d in lowest terms
Rat(n, d) ==
    IF n = 0 THEN <<0, 1>>
    ELSE CHOOSE z \in {<<n \div g, d \div g>> : g \in {GCD(Abs(n), d)}} : TRUE

RatInt(n) == <<n, 1>>

RatAdd(x, y) ==
    CHOOSE z \in {Rat(a[1] * b[2] + b[1] * a[2], a[2] * b[2]) :
                      a \in {x}, b \in {y}} : TRUE

RatNeg(x) == <<-x[1], x[2]>>

RatSub(x, y) == RatAdd(x, RatNeg(y))

RatMul(x, y) ==
    CHOOSE z \in {IF a[1] = 0 \/ b[1] = 0 THEN <<0, 1>>
                  ELSE Rat(a[1] * b[1], a[2] * b[2]) :
                      a \in {x}, b \in {y}} : TRUE

\* x / y for y # 0
RatDiv(x, y) ==
    IF y[1] > 0 THEN RatMul(x, <<y[2], y[1]>>)
    ELSE RatMul(x, <<-y[2], -y[1]>>)

RatLt(x, y) == RatSub(x, y)[1] < 0

RatLe(x, y) == RatSub(x, y)[1] <= 0

\* Number.prototype.toFixed(4) of x >= 0, as a count of ten-thousandths
toFixed4(x) ==
    LET q == x[1] \div x[2]
        r == x[1] % x[2]
    IN  q * 10000 + (2 * r * 10000 + x[2]) \div (2 * x[2])

\* (num / den) * 100 >= threshold as JavaScript evaluates it for integers
\* num and den >= 0: x/0 is Infinity for x > 0, 0/0 is NaN, and every
\* comparison with NaN is false
PercentAtLeast(num, den, threshold) ==
    IF den = 0 THEN num > 0
    ELSE num * 100 >= threshold * den

\* ------------------------------------------------------------------------
\* State
\* ------------------------------------------------------------------------
VARIABLES
    initialized,        \* App.initialize has completed
    config,             \* TradingBot.config
    balance,            \* TradingBot.balance
    initialBalance,     \* TradingBot.initialBalance
    positions,          \* TradingBot.positions: token -> position
    botMonitoredTokens, \* TradingBot.monitoredTokens: token -> extrema
    tradeHistory,       \* TradingBot.tradeHistory, newest first
    stats,              \* TradingBot.stats
    mdMonitoredTokens,  \* MarketData.monitoredTokens: token -> record
    prices,             \* MarketData.prices: full symbol -> price
    executingOrders,    \* OrderExecutor.executingOrders
    proc,               \* the invocations of App.update
    exchangeOrders,     \* orders the exchange accepted, newest first
    returned,           \* what the execute calls returned in the last step
    priceUpdates,       \* price messages delivered so far
    configUpdates,      \* configuration updates so far
    isRunning,          \* App.isRunning: the two timers are set
    isPaused,           \* App.isPaused
    closer,             \* the invocation of App.emergencyStop
    tickTimer,          \* App.updateInterval: handle, whether the field
                        \* holds a timer; active, the interval timers of
                        \* App.update that are set
    streamPeak          \* per held token: the highest of its entry price and
                        \* the prices the stream delivered since it was bought

ledgerVars == <<balance, initialBalance, positions, tradeHistory, stats>>

vars == <<initialized, config, balance, initialBalance, positions,
          botMonitoredTokens, tradeHistory, stats, mdMonitoredTokens, prices,
          executingOrders, proc, exchangeOrders, returned,
          priceUpdates, configUpdates, isRunning, isPaused, closer,
          tickTimer, streamPeak>>

\* a map entry added or replaced (Map.prototype.set)
MapSet(m, k, v) == [x \in (DOMAIN m) \cup {k} |-> IF x = k THEN v ELSE m[x]]

\* a map entry removed (Map.prototype.delete)
MapDelete(m, k) == [x \in (DOMAIN m) \ {k} |-> m[x]]

EmptyMap == [x \in {} |-> 0]

\* no exchange call outstanding
NoCall == [type |-> "none", token |-> "", reason |-> "", quantity |-> 0,
           notional |-> <<0, 1>>, concurrent |-> FALSE]

\* an invocation of App.update that is not running
IdleProc == [pc |-> "idle", signals |-> <<>>, pending |-> NoCall]

\* App.emergencyStop not running.  calls: the invocations so far; tokens:
\* the array getAllTokensData returned to it; cursor: the place of the
\* iterator of closeAllPositions in the entry list of positions, as the
\* number of insertions it has passed; open: the symbols held when
\* closeAllPositions was called; visited: the symbols it has called
\* executeSell for.
IdleCloser == [pc |-> "idle", calls |-> 0, tokens |-> {}, cursor |-> 0,
               pending |-> NoCall, open |-> {}, visited |-> <<>>]

TradingBotConfig ==
    [initialBalance     |-> INITIAL_BALANCE,
     buyThreshold       |-> BUY_THRESHOLD,
     sellThreshold      |-> SELL_THRESHOLD,
     tradeAmountPercent |-> TRADE_AMOUNT_PERCENT,
     minTradeAmount     |-> MIN_TRADE_AMOUNT,
     maxPositions       |-> MAX_POSITIONS]

Init ==
    /\ initialized = FALSE
    /\ config = TradingBotConfig
    /\ balance = RatInt(TradingBotConfig.initialBalance)
    /\ initialBalance = RatInt(TradingBotConfig.initialBalance)
    /\ positions = EmptyMap
    /\ botMonitoredTokens = EmptyMap
    /\ tradeHistory = <<>>
    /\ stats = [totalTrades |-> 0, winningTrades |-> 0, losingTrades |-> 0]
    /\ mdMonitoredTokens = EmptyMap
    /\ prices = EmptyMap
    /\ executingOrders = {}
    /\ proc = [p \in Procs |-> IdleProc]
    /\ exchangeOrders = <<>>
    /\ returned = <<>>
    /\ priceUpdates = 0
    /\ configUpdates = 0
    /\ isRunning = FALSE
    /\ isPaused = FALSE
    /\ closer = IdleCloser
    /\ tickTimer = [handle |-> FALSE, active |-> 0]
    /\ streamPeak = EmptyMap

\* ------------------------------------------------------------------------
\* MarketData (marketData.js)
\* ------------------------------------------------------------------------
\* the record initialize and refreshTopGainers store for a token
TokenData(token, price) ==
    [symbol       |-> token,
     fullSymbol   |-> getFullSymbol(token),
     currentPrice |-> price,
     highestPrice |-> price,
     lowestPrice  |-> price]

getMonitoredTokens(gainers) == STATIC_TOKENS \cup gainers

\* variant: the low is never extended
updatePrice_noLow(md, symbol, price) ==
    LET baseToken == getBaseToken(symbol)
    IN  IF baseToken \in DOMAIN md
        THEN [md EXCEPT ![baseToken] =
                [@ EXCEPT !.currentPrice = price,
                          !.highestPrice = IF price > @ THEN price ELSE @]]
        ELSE md

\* variant: a price for an unknown symbol starts a record
updatePrice_insert(md, symbol, price) ==
    LET baseToken == getBaseToken(symbol)
    IN  IF baseToken \in DOMAIN md
        THEN [md EXCEPT ![baseToken] =
                [@ EXCEPT !.currentPrice = price,
                          !.highestPrice = IF price > @ THEN price ELSE @,
                          !.lowestPrice  = IF price < @ THEN price ELSE @]]
        ELSE MapSet(md, baseToken, TokenData(baseToken, price))

\* MarketData.updatePrice: the new monitoredTokens map
updatePrice(md, symbol, price) ==
    LET baseToken == getBaseToken(symbol)
    IN  IF baseToken \in DOMAIN md
        THEN [md EXCEPT ![baseToken] =
                [@ EXCEPT !.currentPrice = price,
                          !.highestPrice = IF price > @ THEN price ELSE @,
                          !.lowestPrice  = IF price < @ THEN price ELSE @]]
        ELSE md

\* variant: tokens that left the top gainers are dropped
refreshTopGainers_replace(md, pr, newGainers) ==
    [t \in ((DOMAIN md) \cap STATIC_TOKENS) \cup newGainers |->
        IF t \in DOMAIN md THEN md[t]
        ELSE TokenData(t, IF getFullSymbol(t) \in DOMAIN pr
                          THEN pr[getFullSymbol(t)] ELSE 0)]

\* MarketData.refreshTopGainers: the tokens added to monitoredTokens
refreshTopGainers(md, pr, newGainers) ==
    [t \in (DOMAIN md) \cup newGainers |->
        IF t \in DOMAIN md THEN md[t]
        ELSE TokenData(t, IF getFullSymbol(t) \in DOMAIN pr
                          THEN pr[getFullSymbol(t)] ELSE 0)]

\* MarketData.resetTokenMonitoring
resetTokenMonitoring(md, token) ==
    IF token \in DOMAIN md
    THEN [md EXCEPT ![token] = [@ EXCEPT !.highestPrice = md[token].currentPrice,
                                         !.lowestPrice  = md[token].currentPrice]]
    ELSE md

\* MarketData.getAllTokensData: the monitored tokens in insertion order.
\* The elements are the live records of monitoredTokens, so a token is
\* named by its key and its currentPrice is read when it is used.
getAllTokensData(md) ==
    SelectSeq(TokenOrder, LAMBDA t : t \in DOMAIN md)

\* ------------------------------------------------------------------------
\* TradingBot (the ledger and the signal rule)
\* ------------------------------------------------------------------------
\* variant: the record is written whether or not the token has one
monitorToken_overwrite(mon, token, currentPrice) ==
    MapSet(mon, token, [symbol            |-> token,
                        monitorStartPrice |-> currentPrice,
                        highestPrice      |-> currentPrice,
                        lowestPrice       |-> currentPrice])

\* TradingBot.monitorToken
monitorToken(mon, token, currentPrice) ==
    IF token \in DOMAIN mon THEN mon
    ELSE MapSet(mon, token, [symbol            |-> token,
                             monitorStartPrice |-> currentPrice,
                             highestPrice      |-> currentPrice,
                             lowestPrice       |-> currentPrice])

\* the extrema update of updateMonitoring for one token
trackExtrema(mon, token, currentPrice) ==
    [mon EXCEPT ![token] =
        [@ EXCEPT !.highestPrice = IF currentPrice > @ THEN currentPrice ELSE @,
                  !.lowestPrice  = IF currentPrice < @ THEN currentPrice ELSE @]]

\* variant: a higher price also becomes the entry price
raisePeak_rebase(position, currentPrice) ==
    IF currentPrice > position.peakPrice
    THEN [position EXCEPT !.peakPrice = currentPrice, !.buyPrice = currentPrice]
    ELSE position

\* variant: the peak follows the current price
raisePeak_follow(position, currentPrice) ==
    [position EXCEPT !.peakPrice = currentPrice]

\* the peak update of updateMonitoring for a held position
raisePeak(position, currentPrice) ==
    IF currentPrice > position.peakPrice
    THEN [position EXCEPT !.peakPrice = currentPrice]
    ELSE position

\* variant: the stop does not sell below the entry price
sellRule_aboveEntry(position, currentPrice, cfg) ==
    /\ PercentAtLeast(position.peakPrice - currentPrice, position.peakPrice,
                      cfg.sellThreshold)
    /\ currentPrice >= position.buyPrice

\* variant: the drop is measured from the entry price
sellRule_fromEntry(position, currentPrice, cfg) ==
    PercentAtLeast(position.buyPrice - currentPrice, position.buyPrice,
                   cfg.sellThreshold)

\* the sell rule: drop from the peak, in percent, reaches sellThreshold
sellRule(position, currentPrice, cfg) ==
    PercentAtLeast(position.peakPrice - currentPrice, position.peakPrice,
                   cfg.sellThreshold)

\* variant: the rise has to exceed buyThreshold
buyRule_strict(monitored, currentPrice, nPositions, cfg) ==
    /\ IF monitored.lowestPrice = 0 THEN currentPrice > 0
       ELSE (currentPrice - monitored.lowestPrice) * 100
              > cfg.buyThreshold * monitored.lowestPrice
    /\ nPositions < cfg.maxPositions

\* the buy rule: rise from the tracked low, in percent, reaches buyThreshold
\* and a position slot is free
buyRule(monitored, currentPrice, nPositions, cfg) ==
    /\ PercentAtLeast(currentPrice - monitored.lowestPrice,
                      monitored.lowestPrice, cfg.buyThreshold)
    /\ nPositions < cfg.maxPositions

\* TradingBot.updateMonitoring over the tokens from index i on; st carries
\* monitoredTokens, positions and the signals pushed so far
RECURSIVE updateMonitoringFrom(_, _, _, _, _)
updateMonitoringFrom(st, tokens, i, md, cfg) ==
    IF i > Len(tokens) THEN st
    ELSE
      LET token    == tokens[i]
          current  == md[token].currentPrice
          mon      == trackExtrema(monitorToken(st.monitored, token, current),
                                   token, current)
          held     == token \in DOMAIN st.positions
          position == raisePeak(st.positions[token], current)
          pos      == IF held THEN [st.positions EXCEPT ![token] = position]
                      ELSE st.positions
          sigs     == IF held
                      THEN IF sellRule(position, current, cfg)
                           THEN <<[type |-> "sell", token |-> token,
                                   reason |-> "Price dropped from peak"]>>
                           ELSE <<>>
                      ELSE IF buyRule(mon[token], current,
                                      Cardinality(DOMAIN st.positions), cfg)
                           THEN <<[type |-> "buy", token |-> token,
                                   reason |-> "Price increased from low"]>>
                           ELSE <<>>
      IN  updateMonitoringFrom([monitored |-> mon, positions |-> pos,
                                signals |-> st.signals \o sigs],
                               tokens, i + 1, md, cfg)

updateMonitoring(mon, pos, md, cfg) ==
    updateMonitoringFrom([monitored |-> mon, positions |-> pos, signals |-> <<>>],
                         getAllTokensData(md), 1, md, cfg)

\* variant: tradeAmountPercent is taken as an amount of money
tradeAmountOf_fixed(bal, cfg) == RatInt(cfg.tradeAmountPercent)

\* balance * (tradeAmountPercent / 100)
tradeAmountOf(bal, cfg) == RatMul(bal, Rat(cfg.tradeAmountPercent, 100))

\* the extrema reset at the end of buy and sell
resetMonitored(mon, token, currentPrice) ==
    IF token \in DOMAIN mon
    THEN [mon EXCEPT ![token] = [@ EXCEPT !.lowestPrice  = currentPrice,
                                          !.highestPrice = currentPrice]]
    ELSE mon

\* variant: the balance is not compared with the trade amount
buyRejection_noBalanceTest(L, cfg) ==
    IF Cardinality(DOMAIN L.positions) >= cfg.maxPositions
    THEN "Maximum positions reached"
    ELSE IF RatLt(tradeAmountOf(L.balance, cfg), RatInt(cfg.minTradeAmount))
         THEN "Insufficient balance"
         ELSE ""

\* variant: the capacity test is off by one
buyRejection_offByOne(L, cfg) ==
    IF Cardinality(DOMAIN L.positions) > cfg.maxPositions
    THEN "Maximum positions reached"
    ELSE IF \/ RatLt(L.balance, tradeAmountOf(L.balance, cfg))
            \/ RatLt(tradeAmountOf(L.balance, cfg), RatInt(cfg.minTradeAmount))
         THEN "Insufficient balance"
         ELSE ""

\* the message of a rejected TradingBot.buy, "" when the buy goes through
buyRejection(L, cfg) ==
    IF Cardinality(DOMAIN L.positions) >= cfg.maxPositions
    THEN "Maximum positions reached"
    ELSE IF \/ RatLt(L.balance, tradeAmountOf(L.balance, cfg))
            \/ RatLt(tradeAmountOf(L.balance, cfg), RatInt(cfg.minTradeAmount))
         THEN "Insufficient balance"
         ELSE ""

\* variant: the new record replaces the history
unshift_replace(history, trade) == <<trade>>

\* tradeHistory.unshift(trade): the new record is put in front
unshift(history, trade) == <<trade>> \o history

\* TradingBot.buy on the ledger L = [balance, positions, monitored,
\* tradeHistory, stats]; currentPrice is token.currentPrice at the call
buy(L, cfg, token, currentPrice, reason) ==
    LET tradeAmount == tradeAmountOf(L.balance, cfg)
        amount      == RatDiv(tradeAmount, RatInt(currentPrice))
        trade       == [type   |-> "buy",
                        symbol |-> token,
                        price  |-> currentPrice,
                        amount |-> amount,
                        total  |-> tradeAmount,
                        reason |-> reason]
    IN  IF buyRejection(L, cfg) # ""
        THEN [success |-> FALSE, message |-> buyRejection(L, cfg), ledger |-> L]
        ELSE [success |-> TRUE, message |-> "",
              ledger  |->
                [balance      |-> RatSub(L.balance, tradeAmount),
                 positions    |-> MapSet(L.positions, token,
                                    [symbol    |-> token,
                                     amount    |-> amount,
                                     buyPrice  |-> currentPrice,
                                     peakPrice |-> currentPrice]),
                 monitored    |-> resetMonitored(L.monitored, token, currentPrice),
                 tradeHistory |-> unshift(L.tradeHistory, trade),
                 stats        |-> [L.stats EXCEPT !.totalTrades = @ + 1]]]

\* variant: the proceeds are computed from the entry price
sellValueOf_entry(position, currentPrice) ==
    RatMul(position.amount, RatInt(position.buyPrice))

\* position.amount * token.currentPrice
sellValueOf(position, currentPrice) ==
    RatMul(position.amount, RatInt(currentPrice))

\* variant: a sale without profit counts as won
isWinning_orEven(profit) == profit[1] >= 0

\* profit > 0, the test that chooses between winningTrades and losingTrades
isWinning(profit) == profit[1] > 0

\* variant: a sell without a position is counted as a trade
sellMissing_counted(L) ==
    [success |-> FALSE, message |-> "No position found",
     ledger |-> [L EXCEPT !.stats.totalTrades = @ + 1]]

\* the return of TradingBot.sell when the symbol has no position
sellMissing(L) ==
    [success |-> FALSE, message |-> "No position found", ledger |-> L]

\* TradingBot.sell
sell(L, token, currentPrice, reason) ==
    IF token \notin DOMAIN L.positions
    THEN sellMissing(L)
    ELSE
      LET position      == L.positions[token]
          sellValue     == sellValueOf(position, currentPrice)
          cost          == RatMul(position.amount, RatInt(position.buyPrice))
          profit        == RatSub(sellValue, cost)
          profitPercent == RatMul(RatDiv(profit, cost), RatInt(100))
          trade         == [type          |-> "sell",
                            symbol        |-> token,
                            price         |-> currentPrice,
                            amount        |-> position.amount,
                            total         |-> sellValue,
                            buyPrice      |-> position.buyPrice,
                            peakPrice     |-> position.peakPrice,
                            profit        |-> profit,
                            profitPercent |-> profitPercent,
                            reason        |-> reason]
      IN  [success |-> TRUE, message |-> "",
           ledger  |->
             [balance      |-> RatAdd(L.balance, sellValue),
              positions    |-> MapDelete(L.positions, token),
              monitored    |-> resetMonitored(L.monitored, token, currentPrice),
              tradeHistory |-> unshift(L.tradeHistory, trade),
              stats        |->
                [L.stats EXCEPT
                   !.totalTrades   = @ + 1,
                   !.winningTrades = IF isWinning(profit) THEN @ + 1 ELSE @,
                   !.losingTrades  = IF isWinning(profit) THEN @ ELSE @ + 1]]]

\* ------------------------------------------------------------------------
\* OrderExecutor
\* ------------------------------------------------------------------------
\* variant: one marker for all symbols
alreadyExecuting_anySymbol(ex, symbol) == ex # {}

\* variant: the test of executingOrders is missing
alreadyExecuting_unchecked(ex, symbol) == FALSE

\* the test of executingOrders at the head of executeBuy and executeSell
alreadyExecuting(ex, symbol) == symbol \in ex

\* variant: the exit path after a rejected ledger call keeps the marker
release_leak(ex, symbol, path) ==
    IF path = "botFailed" THEN ex ELSE ex \ {symbol}

\* executingOrders.delete(symbol) on the exit path named by path
release(ex, symbol, path) == ex \ {symbol}

\* variant: the ledger call is made whatever placeOrder answered
reconcile_always(outcome, botResult, L) == botResult.ledger

\* the ledger after placeOrder answered: tradingBot.buy or tradingBot.sell
\* is called only in the branch of orderResult.success
reconcile(outcome, botResult, L) ==
    IF outcome = "ok" THEN botResult.ledger ELSE L

\* variant: the minimum is not enforced
belowMinimum_never(tradeAmount, cfg) == FALSE

\* the test of the trade amount in executeBuy
belowMinimum(tradeAmount, cfg) == RatLt(tradeAmount, RatInt(cfg.minTradeAmount))

\* variant: half of the position is sold
sellQuantity_half(position) == toFixed4(RatDiv(position.amount, RatInt(2)))

\* the quantity executeSell sends: position.amount.toFixed(4), in
\* ten-thousandths
sellQuantity(position) == toFixed4(position.amount)

\* executeBuy and executeSell from the call to the first suspension or to
\* an early return.  suspend: the call reached placeOrder with quantity;
\* otherwise it returned message.  notional: the local tradeAmount of
\* executeBuy.  ex is executingOrders afterwards.
executeEntry(sig, ex, L, cfg, md) ==
    LET symbol      == getFullSymbol(sig.token)
        tradeAmount == tradeAmountOf(L.balance, cfg)
    IN  IF alreadyExecuting(ex, symbol)
        THEN [suspend |-> FALSE, message |-> "Order already executing",
              quantity |-> 0, notional |-> RatInt(0), ex |-> ex]
        ELSE IF sig.type = "buy"
        THEN IF belowMinimum(tradeAmount, cfg)
             THEN [suspend |-> FALSE, message |-> "Trade amount below minimum",
                   quantity |-> 0, notional |-> tradeAmount,
                   ex |-> release(ex \cup {symbol}, symbol, "belowMinimum")]
             ELSE [suspend |-> TRUE, message |-> "",
                   quantity |-> toFixed4(RatDiv(tradeAmount,
                                    RatInt(md[sig.token].currentPrice))),
                   notional |-> tradeAmount,
                   ex |-> ex \cup {symbol}]
        ELSE IF sig.token \notin DOMAIN L.positions
             THEN [suspend |-> FALSE, message |-> "No position found",
                   quantity |-> 0, notional |-> RatInt(0),
                   ex |-> release(ex \cup {symbol}, symbol, "noPosition")]
             ELSE [suspend |-> TRUE, message |-> "",
                   quantity |-> sellQuantity(L.positions[sig.token]),
                   notional |-> RatInt(0),
                   ex |-> ex \cup {symbol}]

\* variant: the loop ends at the first call that returns without suspending
RECURSIVE updateLoop_stopOnFailure(_, _, _, _, _, _, _)
updateLoop_stopOnFailure(sigs, results, ex, L, cfg, md, outstanding) ==
    IF sigs = <<>>
    THEN [proc |-> IdleProc, results |-> results, ex |-> ex]
    ELSE
      LET sig        == Head(sigs)
          e          == executeEntry(sig, ex, L, cfg, md)
          concurrent == getFullSymbol(sig.token) \in outstanding
      IN  IF e.suspend
          THEN [proc    |-> [pc |-> "awaitOrder", signals |-> Tail(sigs),
                             pending |-> [type |-> sig.type, token |-> sig.token,
                                          reason |-> sig.reason,
                                          quantity |-> e.quantity,
                                          notional |-> e.notional,
                                          concurrent |-> concurrent]],
                results |-> results,
                ex      |-> e.ex]
          ELSE [proc    |-> IdleProc,
                results |-> Append(results, [signal |-> sig, success |-> FALSE,
                                             message |-> e.message,
                                             concurrent |-> concurrent]),
                ex      |-> e.ex]

\* the loop over the signals in App.update, run until a call suspends in
\* placeOrder or the signals are used up.  results: what the execute calls
\* that returned gave back.  outstanding: the symbols for which another
\* invocation is suspended in placeOrder.
RECURSIVE updateLoop(_, _, _, _, _, _, _)
updateLoop(sigs, results, ex, L, cfg, md, outstanding) ==
    IF sigs = <<>>
    THEN [proc |-> IdleProc, results |-> results, ex |-> ex]
    ELSE
      LET sig        == Head(sigs)
          e          == executeEntry(sig, ex, L, cfg, md)
          concurrent == getFullSymbol(sig.token) \in outstanding
      IN  IF e.suspend
          THEN [proc    |-> [pc |-> "awaitOrder", signals |-> Tail(sigs),
                             pending |-> [type |-> sig.type, token |-> sig.token,
                                          reason |-> sig.reason,
                                          quantity |-> e.quantity,
                                          notional |-> e.notional,
                                          concurrent |-> concurrent]],
                results |-> results,
                ex      |-> e.ex]
          ELSE updateLoop(Tail(sigs),
                          Append(results, [signal |-> sig, success |-> FALSE,
                                           message |-> e.message,
                                           concurrent |-> concurrent]),
                          e.ex, L, cfg, md, outstanding)

\* the symbols with an exchange call outstanding from the invocations of
\* App.update other than p
OutstandingTicks(p) ==
    {getFullSymbol(proc[q].pending.token) :
        q \in {r \in Procs \ {p} : proc[r].pc = "awaitOrder"}}

\* the symbol with an exchange call outstanding from closeAllPositions
OutstandingCloser ==
    IF closer.pc = "awaitOrder" THEN {getFullSymbol(closer.pending.token)}
    ELSE {}

\* the symbols with an exchange call outstanding from invocations other
\* than the invocation p of App.update
Outstanding(p) == OutstandingTicks(p) \cup OutstandingCloser

\* variant: a call the exchange did not accept is made again
remaining_retry(sigs, call, outcome) ==
    IF outcome = "ok" THEN sigs
    ELSE <<[type |-> call.type, token |-> call.token, reason |-> call.reason]>>
         \o sigs

\* the signals App.update still has to execute when the execute of call
\* has returned: executeBuy and executeSell return after one answer of
\* placeOrder whatever it was, and the loop goes on to the next signal
remaining(sigs, call, outcome) == sigs

Ledger == [balance |-> balance, positions |-> positions,
           monitored |-> botMonitoredTokens, tradeHistory |-> tradeHistory,
           stats |-> stats]

\* The place of the entry of token in the entry list of the Map positions,
\* as the number of the insertion that made it.  Map.prototype.set appends
\* an entry for a new key and keeps the place of an existing key, so the
\* entry of a held token was made by the oldest buy after its last sell;
\* history is newest first.
entryOf(history, token) ==
    LET n     == Len(history)
        sells == {i \in 1..n : /\ history[i].type = "sell"
                               /\ history[i].symbol = token}
        upTo  == IF sells = {} THEN n
                 ELSE (CHOOSE i \in sells : \A j \in sells : i <= j) - 1
        buys  == {i \in 1..upTo : /\ history[i].type = "buy"
                                  /\ history[i].symbol = token}
    IN  n + 1 - (CHOOSE i \in buys : \A j \in buys : i >= j)

\* the for-of loop of closeAllPositions over the live Map positions, run
\* from the place cursor of its iterator until an executeSell suspends in
\* placeOrder or the iterator is exhausted: the iterator yields the entries
\* behind cursor that exist when it reaches them, in insertion order
RECURSIVE closeLoop(_, _, _, _, _, _, _, _)
closeLoop(c, results, ex, L, cfg, md, tokens, outstanding) ==
    LET rest == {t \in DOMAIN L.positions : entryOf(L.tradeHistory, t) > c.cursor}
    IN  IF rest = {}
        THEN [closer |-> [c EXCEPT !.pc = "idle", !.pending = NoCall],
              done |-> TRUE, results |-> results, ex |-> ex]
        ELSE
          LET symbol == CHOOSE t \in rest : \A u \in rest :
                            entryOf(L.tradeHistory, t) <= entryOf(L.tradeHistory, u)
              at     == entryOf(L.tradeHistory, symbol)
              sig    == [type |-> "sell", token |-> symbol,
                         reason |-> "Emergency close"]
              e      == executeEntry(sig, ex, L, cfg, md)
              concurrent == getFullSymbol(symbol) \in outstanding
          IN  IF symbol \notin tokens
              THEN closeLoop([c EXCEPT !.cursor = at], results, ex, L, cfg, md,
                             tokens, outstanding)
              ELSE IF e.suspend
              THEN [closer |-> [c EXCEPT !.pc = "awaitOrder", !.cursor = at,
                                         !.visited = Append(@, symbol),
                                         !.pending = [type |-> "sell",
                                                      token |-> symbol,
                                                      reason |-> sig.reason,
                                                      quantity |-> e.quantity,
                                                      notional |-> e.notional,
                                                      concurrent |-> concurrent]],
                    done |-> FALSE, results |-> results, ex |-> e.ex]
              ELSE closeLoop([c EXCEPT !.cursor = at,
                                       !.visited = Append(@, symbol)],
                             Append(results, [signal |-> sig, success |-> FALSE,
                                              message |-> e.message,
                                              concurrent |-> concurrent]),
                             e.ex, L, cfg, md, tokens, outstanding)

\* the flags and the tick timer of App
Lifecycle == [isRunning |-> isRunning, isPaused |-> isPaused,
              tickTimer |-> tickTimer]

\* variant: start does not test isRunning
start_unguarded(app) ==
    [isRunning |-> TRUE, isPaused |-> FALSE,
     tickTimer |-> [handle |-> TRUE, active |-> app.tickTimer.active + 1]]

\* App.start: returns at once when isRunning; otherwise sets the flags and
\* stores a new interval timer in updateInterval
start(app) ==
    IF app.isRunning THEN app
    ELSE [isRunning |-> TRUE, isPaused |-> FALSE,
          tickTimer |-> [handle |-> TRUE, active |-> app.tickTimer.active + 1]]

\* App.stop: clears the flags, and the timer updateInterval holds
stop(app) ==
    [isRunning |-> FALSE, isPaused |-> FALSE,
     tickTimer |-> IF app.tickTimer.handle
                   THEN [handle |-> FALSE, active |-> app.tickTimer.active - 1]
                   ELSE app.tickTimer]

\* the record of the delivered prices after the stream callback got price
\* for symbol: kept for the tokens that are held
observed(sp, symbol, price) ==
    [t \in DOMAIN sp |->
        IF t = getBaseToken(symbol) /\ price > sp[t] THEN price ELSE sp[t]]

\* the record of the delivered prices after the ledger went from L to M:
\* a position TradingBot.buy set starts at its entry price, a position
\* TradingBot.sell deleted is dropped
reopened(sp, L, M) ==
    [t \in DOMAIN M.positions |->
        IF /\ Len(M.tradeHistory) > Len(L.tradeHistory)
           /\ M.tradeHistory[1].type = "buy"
           /\ M.tradeHistory[1].symbol = t
        THEN M.positions[t].buyPrice
        ELSE sp[t]]

\* ------------------------------------------------------------------------
\* Actions
\* ------------------------------------------------------------------------
\* balances the exchange reports as available at initialisation
AvailableBalances == {INITIAL_BALANCE}

\* App.initialize with MarketData.initialize
Initialize(available, gainers, lastPrice) ==
    /\ ~initialized
    /\ initialized' = TRUE
    /\ config' = [config EXCEPT !.initialBalance = available]
    /\ balance' = RatInt(available)
    /\ initialBalance' = RatInt(available)
    /\ mdMonitoredTokens' =
         [t \in getMonitoredTokens(gainers) |-> TokenData(t, lastPrice[t])]
    /\ prices' = [s \in {getFullSymbol(t) : t \in getMonitoredTokens(gainers)}
                    |-> lastPrice[getBaseToken(s)]]
    /\ returned' = <<>>
    /\ UNCHANGED <<positions, botMonitoredTokens, tradeHistory, stats,
                   executingOrders, proc, exchangeOrders, priceUpdates, configUpdates,
                   isRunning, isPaused, closer>>
    /\ UNCHANGED streamPeak
    /\ UNCHANGED tickTimer

\* the stream callback of App.initialize: MarketData.updatePrice, for a
\* stream that delivers at most limit messages
StreamPrice(symbol, price, limit) ==
    /\ initialized
    /\ priceUpdates < limit
    \* a repeated price changes nothing but lastUpdate
    /\ ~(symbol \in DOMAIN prices /\ prices[symbol] = price)
    /\ priceUpdates' = priceUpdates + 1
    /\ prices' = MapSet(prices, symbol, price)
    /\ mdMonitoredTokens' = updatePrice(mdMonitoredTokens, symbol, price)
    /\ streamPeak' = observed(streamPeak, symbol, price)
    /\ returned' = <<>>
    /\ UNCHANGED <<initialized, config, balance, initialBalance, positions,
                   botMonitoredTokens, tradeHistory, stats,
                   executingOrders, proc, exchangeOrders, configUpdates,
                   isRunning, isPaused, closer>>
    /\ UNCHANGED tickTimer

UpdatePrice(symbol, price) == StreamPrice(symbol, price, MaxPriceUpdates)

\* App.start
Start ==
    /\ initialized
    \* a call that returns at 'Bot is already running' is no step
    /\ start(Lifecycle) # Lifecycle
    /\ isRunning' = start(Lifecycle).isRunning
    /\ isPaused' = start(Lifecycle).isPaused
    /\ tickTimer' = start(Lifecycle).tickTimer
    /\ returned' = <<>>
    /\ UNCHANGED <<initialized, config, balance, initialBalance, positions,
                   botMonitoredTokens, tradeHistory, stats, mdMonitoredTokens,
                   prices, executingOrders, proc, exchangeOrders, priceUpdates,
                   configUpdates, closer>>
    /\ UNCHANGED streamPeak

\* App.pause
Pause ==
    /\ initialized
    /\ isPaused' = TRUE
    /\ returned' = <<>>
    /\ UNCHANGED <<initialized, config, balance, initialBalance, positions,
                   botMonitoredTokens, tradeHistory, stats, mdMonitoredTokens,
                   prices, executingOrders, proc, exchangeOrders, priceUpdates,
                   configUpdates, isRunning, closer, streamPeak>>
    /\ UNCHANGED tickTimer

\* App.resume
Resume ==
    /\ initialized
    /\ isPaused' = FALSE
    /\ returned' = <<>>
    /\ UNCHANGED <<initialized, config, balance, initialBalance, positions,
                   botMonitoredTokens, tradeHistory, stats, mdMonitoredTokens,
                   prices, executingOrders, proc, exchangeOrders, priceUpdates,
                   configUpdates, isRunning, closer, streamPeak>>
    /\ UNCHANGED tickTimer

\* App.stop: both timers are cleared
Stop ==
    /\ initialized
    /\ isRunning' = stop(Lifecycle).isRunning
    /\ isPaused' = stop(Lifecycle).isPaused
    /\ tickTimer' = stop(Lifecycle).tickTimer
    /\ returned' = <<>>
    /\ UNCHANGED <<initialized, config, balance, initialBalance, positions,
                   botMonitoredTokens, tradeHistory, stats, mdMonitoredTokens,
                   prices, executingOrders, proc, exchangeOrders, priceUpdates,
                   configUpdates, closer, streamPeak>>

\* the refresh timer of App.start: MarketData.refreshTopGainers
RefreshTopGainers(newGainers) ==
    /\ isRunning
    /\ ~isPaused
    /\ mdMonitoredTokens' = refreshTopGainers(mdMonitoredTokens, prices, newGainers)
    /\ returned' = <<>>
    /\ UNCHANGED <<initialized, config, balance, initialBalance, positions,
                   botMonitoredTokens, tradeHistory, stats, prices,
                   executingOrders, proc, exchangeOrders, priceUpdates, configUpdates,
                   isRunning, isPaused, closer>>
    /\ UNCHANGED streamPeak
    /\ UNCHANGED tickTimer

\* MarketData.resetTokenMonitoring
ResetTokenMonitoring(token) ==
    /\ initialized
    /\ mdMonitoredTokens' = resetTokenMonitoring(mdMonitoredTokens, token)
    /\ returned' = <<>>
    /\ UNCHANGED <<initialized, config, balance, initialBalance, positions,
                   botMonitoredTokens, tradeHistory, stats, prices,
                   executingOrders, proc, exchangeOrders, priceUpdates, configUpdates,
                   isRunning, isPaused, closer>>
    /\ UNCHANGED streamPeak
    /\ UNCHANGED tickTimer

\* the configuration objects passed to updateConfig: the three fields of
\* the configuration form with a trade amount above 100 percent, and a
\* lowered maxPositions
ConfigUpdates ==
    { [buyThreshold |-> BUY_THRESHOLD, sellThreshold |-> SELL_THRESHOLD,
       tradeAmountPercent |-> 150],
      [maxPositions |-> 1] }

\* TradingBot.updateConfig: { ...this.config, ...config }
updateConfig(cfg, c) ==
    [k \in DOMAIN cfg |-> IF k \in DOMAIN c THEN c[k] ELSE cfg[k]]

UpdateConfig(c) ==
    /\ initialized
    /\ configUpdates < MaxConfigUpdates
    /\ updateConfig(config, c) # config
    /\ configUpdates' = configUpdates + 1
    /\ config' = updateConfig(config, c)
    /\ returned' = <<>>
    /\ UNCHANGED <<initialized, balance, initialBalance, positions,
                   botMonitoredTokens, tradeHistory, stats, mdMonitoredTokens,
                   prices, executingOrders, proc, exchangeOrders, priceUpdates,
                   isRunning, isPaused, closer>>
    /\ UNCHANGED streamPeak
    /\ UNCHANGED tickTimer

\* the tick timer of App.start fires: App.update from its start to the
\* first suspension in placeOrder, or to its end
TickStart(p) ==
    /\ tickTimer.active > 0
    /\ ~isPaused
    /\ proc[p].pc = "idle"
    /\ \A q \in Procs : q < p => proc[q].pc # "idle"
    /\ LET um == updateMonitoring(botMonitoredTokens, positions,
                                  mdMonitoredTokens, config)
           L  == [Ledger EXCEPT !.monitored = um.monitored,
                                !.positions = um.positions]
           r  == updateLoop(um.signals, <<>>, executingOrders, L, config,
                            mdMonitoredTokens, Outstanding(p))
       IN  /\ botMonitoredTokens' = um.monitored
           /\ positions' = um.positions
           /\ executingOrders' = r.ex
           /\ proc' = [proc EXCEPT ![p] = r.proc]
           /\ returned' = r.results
    /\ UNCHANGED <<initialized, config, balance, initialBalance, tradeHistory,
                   stats, mdMonitoredTokens, prices, exchangeOrders, priceUpdates, configUpdates,
                   isRunning, isPaused, closer>>
    /\ UNCHANGED streamPeak
    /\ UNCHANGED tickTimer

\* what placeOrder may answer: an accepted order, an error result, or a
\* thrown fault
Outcomes == {"ok", "rejected", "fault"}

\* placeOrder answers: executeBuy or executeSell runs from the await to its
\* return, and App.update goes on to the next suspension or to its end
OrderResponse(p, outcome) ==
    /\ proc[p].pc = "awaitOrder"
    /\ outcome = "ok" => Len(exchangeOrders) < MaxOrders
    /\ LET call      == proc[p].pending
           token     == call.token
           symbol    == getFullSymbol(token)
           current   == mdMonitoredTokens[token].currentPrice
           botResult == IF call.type = "buy"
                        THEN buy(Ledger, config, token, current, call.reason)
                        ELSE sell(Ledger, token, current, call.reason)
           L         == reconcile(outcome, botResult, Ledger)
           path      == IF outcome = "ok"
                        THEN IF botResult.success THEN "success" ELSE "botFailed"
                        ELSE IF outcome = "rejected" THEN "orderFailed"
                        ELSE "catch"
           result    == [signal  |-> [type |-> call.type, token |-> token,
                                      reason |-> call.reason],
                         success |-> outcome = "ok" /\ botResult.success,
                         message |-> IF outcome = "ok" THEN botResult.message
                                     ELSE IF outcome = "rejected"
                                     THEN "Bybit order failed"
                                     ELSE "fault",
                         concurrent |-> call.concurrent]
           r         == updateLoop(remaining(proc[p].signals, call, outcome),
                                   <<result>>,
                                   release(executingOrders, symbol, path),
                                   L, config, mdMonitoredTokens, Outstanding(p))
       IN  /\ balance' = L.balance
           /\ positions' = L.positions
           /\ botMonitoredTokens' = L.monitored
           /\ tradeHistory' = L.tradeHistory
           /\ stats' = L.stats
           /\ streamPeak' = reopened(streamPeak, Ledger, L)
           /\ executingOrders' = r.ex
           /\ proc' = [proc EXCEPT ![p] = r.proc]
           /\ returned' = r.results
           /\ exchangeOrders' =
                IF outcome = "ok"
                THEN <<[symbol |-> symbol,
                        side |-> IF call.type = "buy" THEN "Buy" ELSE "Sell",
                        qty |-> call.quantity]>> \o exchangeOrders
                ELSE exchangeOrders
    /\ UNCHANGED <<initialized, config, initialBalance, mdMonitoredTokens,
                   prices, priceUpdates, configUpdates,
                   isRunning, isPaused, closer>>
    /\ UNCHANGED tickTimer

\* App.emergencyStop from the click to the first suspension in placeOrder,
\* or to its end: pause(), closeAllPositions over the array of
\* getAllTokensData, and stop() when closeAllPositions has returned
EmergencyStop ==
    /\ initialized
    /\ closer.pc = "idle"
    /\ closer.calls < MaxEmergencyStops
    /\ LET c == [pc |-> "idle", calls |-> closer.calls + 1,
                 tokens |-> DOMAIN mdMonitoredTokens, cursor |-> 0,
                 pending |-> NoCall, open |-> DOMAIN positions,
                 visited |-> <<>>]
           r == closeLoop(c, <<>>, executingOrders, Ledger, config,
                          mdMonitoredTokens, c.tokens, OutstandingTicks(0))
       IN  /\ closer' = r.closer
           /\ executingOrders' = r.ex
           /\ returned' = r.results
           /\ LET paused == [Lifecycle EXCEPT !.isPaused = TRUE]
                   app    == IF r.done THEN stop(paused) ELSE paused
               IN  /\ isPaused' = app.isPaused
                   /\ isRunning' = app.isRunning
                   /\ tickTimer' = app.tickTimer
    /\ UNCHANGED <<initialized, config, balance, initialBalance, positions,
                   botMonitoredTokens, tradeHistory, stats, mdMonitoredTokens,
                   prices, proc, exchangeOrders, priceUpdates, configUpdates>>
    /\ UNCHANGED streamPeak

\* placeOrder answers the executeSell of closeAllPositions: executeSell
\* runs to its return, closeAllPositions goes on to the next suspension or
\* to its end, and App.emergencyStop then calls stop()
CloseResponse(outcome) ==
    /\ closer.pc = "awaitOrder"
    /\ outcome = "ok" => Len(exchangeOrders) < MaxOrders
    /\ LET call      == closer.pending
           token     == call.token
           symbol    == getFullSymbol(token)
           current   == mdMonitoredTokens[token].currentPrice
           botResult == sell(Ledger, token, current, call.reason)
           L         == reconcile(outcome, botResult, Ledger)
           path      == IF outcome = "ok"
                        THEN IF botResult.success THEN "success" ELSE "botFailed"
                        ELSE IF outcome = "rejected" THEN "orderFailed"
                        ELSE "catch"
           result    == [signal  |-> [type |-> call.type, token |-> token,
                                      reason |-> call.reason],
                         success |-> outcome = "ok" /\ botResult.success,
                         message |-> IF outcome = "ok" THEN botResult.message
                                     ELSE IF outcome = "rejected"
                                     THEN "Bybit order failed"
                                     ELSE "fault",
                         concurrent |-> call.concurrent]
           r         == closeLoop(closer, <<result>>,
                                  release(executingOrders, symbol, path),
                                  L, config, mdMonitoredTokens, closer.tokens,
                                  OutstandingTicks(0))
       IN  /\ balance' = L.balance
           /\ positions' = L.positions
           /\ botMonitoredTokens' = L.monitored
           /\ tradeHistory' = L.tradeHistory
           /\ stats' = L.stats
           /\ streamPeak' = reopened(streamPeak, Ledger, L)
           /\ executingOrders' = r.ex
           /\ closer' = r.closer
           /\ returned' = r.results
           /\ LET app == IF r.done THEN stop(Lifecycle) ELSE Lifecycle
               IN  /\ isPaused' = app.isPaused
                   /\ isRunning' = app.isRunning
                   /\ tickTimer' = app.tickTimer
           /\ exchangeOrders' =
                IF outcome = "ok"
                THEN <<[symbol |-> symbol, side |-> "Sell",
                        qty |-> call.quantity]>> \o exchangeOrders
                ELSE exchangeOrders
    /\ UNCHANGED <<initialized, config, initialBalance, mdMonitoredTokens,
                   prices, proc, priceUpdates, configUpdates>>

\* App.reset: stop() and TradingBot.reset.  Map.prototype.clear empties the
\* entry list, so an iterator of positions that is in use starts over on the
\* entries made afterwards.
Reset ==
    /\ initialized
    /\ isRunning' = stop(Lifecycle).isRunning
    /\ isPaused' = stop(Lifecycle).isPaused
    /\ tickTimer' = stop(Lifecycle).tickTimer
    /\ balance' = RatInt(config.initialBalance)
    /\ initialBalance' = RatInt(config.initialBalance)
    /\ positions' = EmptyMap
    /\ botMonitoredTokens' = EmptyMap
    /\ tradeHistory' = <<>>
    /\ stats' = [totalTrades |-> 0, winningTrades |-> 0, losingTrades |-> 0]
    /\ closer' = [closer EXCEPT !.cursor = 0]
    /\ streamPeak' = EmptyMap
    /\ returned' = <<>>
    /\ UNCHANGED <<initialized, config, mdMonitoredTokens, prices,
                   executingOrders, proc, exchangeOrders, priceUpdates,
                   configUpdates>>

\* the running application: initialisation, the price stream, the two
\* timers, the configuration form and the answers of the exchange
Next ==
    \/ \E a \in AvailableBalances, g \in SUBSET GainerTokens,
          lp \in [Tokens -> TickerPrices] : Initialize(a, g, lp)
    \/ Start
    \/ \E s \in Symbols, price \in Prices : UpdatePrice(s, price)
    \/ \E g \in SUBSET GainerTokens : RefreshTopGainers(g)
    \/ \E c \in ConfigUpdates : UpdateConfig(c)
    \/ \E p \in Procs : TickStart(p)
    \/ \E p \in Procs, o \in Outcomes : OrderResponse(p, o)

Spec == Init /\ [][Next]_vars

\* the price tracker with every operation of MarketData, among them
\* resetTokenMonitoring, which the application itself never calls
NextTracker ==
    \/ \E a \in AvailableBalances, g \in SUBSET GainerTokens,
          lp \in [Tokens -> TickerPrices] : Initialize(a, g, lp)
    \/ Start
    \/ \E s \in Symbols, price \in Prices : UpdatePrice(s, price)
    \/ \E g \in SUBSET GainerTokens : RefreshTopGainers(g)
    \/ \E t \in Tokens : ResetTokenMonitoring(t)
    \/ \E p \in Procs : TickStart(p)
    \/ \E p \in Procs, o \in Outcomes : OrderResponse(p, o)

SpecTracker == Init /\ [][NextTracker]_vars

\* the application with the emergency stop and the reset button, without
\* the refresh of the top gainers and the configuration form
NextStop ==
    \/ \E a \in AvailableBalances, g \in SUBSET GainerTokens,
          lp \in [Tokens -> TickerPrices] : Initialize(a, g, lp)
    \/ Start
    \/ \E s \in Symbols, price \in Prices : UpdatePrice(s, price)
    \/ \E p \in Procs : TickStart(p)
    \/ \E p \in Procs, o \in Outcomes : OrderResponse(p, o)
    \/ EmergencyStop
    \/ \E o \in Outcomes : CloseResponse(o)
    \/ Reset

SpecStop == Init /\ [][NextStop]_vars

\* prices of a finer stream: 100 -> 101 is a rise of less than
\* BUY_THRESHOLD percent, 200 -> 194 a drop of exactly SELL_THRESHOLD
\* percent, 102 -> 101 and 200 -> 195 are smaller drops
RulePrices == {101, 102, 194, 200}

\* the signal rule on one instrument: the application with the static
\* tokens only, a finer stream of one more message, no refresh and no
\* configuration form
NextRule ==
    \/ \E a \in AvailableBalances, lp \in [Tokens -> TickerPrices] :
          Initialize(a, {}, lp)
    \/ Start
    \/ \E t \in STATIC_TOKENS, price \in RulePrices :
          StreamPrice(getFullSymbol(t), price, MaxPriceUpdates + 1)
    \/ \E p \in Procs : TickStart(p)
    \/ \E p \in Procs, o \in Outcomes : OrderResponse(p, o)

SpecRule == Init /\ [][NextRule]_vars

\* an available balance whose trade amount is below MIN_TRADE_AMOUNT
SmallBalances == {3}

\* the order executor on two instruments: the application with a stream
\* of one more message and an account that may be nearly empty, no refresh
\* and no configuration form
NextGuard ==
    \/ \E a \in AvailableBalances \cup SmallBalances,
          lp \in [Tokens -> TickerPrices] : Initialize(a, GainerTokens, lp)
    \/ Start
    \/ \E s \in Symbols, price \in Prices :
          StreamPrice(s, price, MaxPriceUpdates + 1)
    \/ \E p \in Procs : TickStart(p)
    \/ \E p \in Procs, o \in Outcomes : OrderResponse(p, o)

SpecGuard == Init /\ [][NextGuard]_vars

\* the application with the emergency stop on an exchange that accepts
\* every order
NextAccept ==
    \/ \E a \in AvailableBalances, g \in SUBSET GainerTokens,
          lp \in [Tokens -> TickerPrices] : Initialize(a, g, lp)
    \/ Start
    \/ \E s \in Symbols, price \in Prices : UpdatePrice(s, price)
    \/ \E p \in Procs : TickStart(p)
    \/ \E p \in Procs : OrderResponse(p, "ok")
    \/ EmergencyStop
    \/ CloseResponse("ok")

SpecAccept == Init /\ [][NextAccept]_vars

\* the application with the start, pause, resume and stop buttons, without
\* the refresh of the top gainers and the configuration form
NextLifecycle ==
    \/ \E a \in AvailableBalances, lp \in [Tokens -> TickerPrices] :
          Initialize(a, GainerTokens, lp)
    \/ Start
    \/ Pause
    \/ Resume
    \/ Stop
    \/ \E s \in Symbols, price \in Prices : UpdatePrice(s, price)
    \/ \E p \in Procs : TickStart(p)
    \/ \E p \in Procs, o \in Outcomes : OrderResponse(p, o)

SpecLifecycle == Init /\ [][NextLifecycle]_vars

\* the six buttons of the application on one instrument: start, pause,
\* resume, stop, emergency stop and reset, without the refresh of the top
\* gainers and the configuration form
NextButtons ==
    \/ \E a \in AvailableBalances, lp \in [Tokens -> TickerPrices] :
          Initialize(a, {}, lp)
    \/ Start
    \/ Pause
    \/ Resume
    \/ Stop
    \/ Reset
    \/ EmergencyStop
    \/ \E o \in Outcomes : CloseResponse(o)
    \/ \E t \in STATIC_TOKENS, price \in Prices :
          UpdatePrice(getFullSymbol(t), price)
    \/ \E p \in Procs : TickStart(p)
    \/ \E p \in Procs, o \in Outcomes : OrderResponse(p, o)

SpecButtons == Init /\ [][NextButtons]_vars

\* the running application on one instrument, with the pause and resume
\* buttons, the prices of both streams and an exchange that accepts every
\* order
NextLive ==
    \/ \E a \in AvailableBalances, lp \in [Tokens -> TickerPrices] :
          Initialize(a, {}, lp)
    \/ Start
    \/ Pause
    \/ Resume
    \/ \E t \in STATIC_TOKENS, price \in Prices \cup RulePrices :
          UpdatePrice(getFullSymbol(t), price)
    \/ \E p \in Procs : TickStart(p)
    \/ \E p \in Procs : OrderResponse(p, "ok")

\* the interval timer keeps firing while it is set, and the exchange
\* answers every call
SpecLive ==
    /\ Init
    /\ [][NextLive]_vars
    /\ WF_vars(\E p \in Procs : TickStart(p))
    /\ WF_vars(\E p \in Procs : OrderResponse(p, "ok"))

\* the trade history on one instrument: ticks, answers of the exchange,
\* emergency stop and reset, with the prices of both streams, so that
\* sells with and without profit are recorded
NextHistory ==
    \/ \E a \in AvailableBalances, lp \in [Tokens -> TickerPrices] :
          Initialize(a, {}, lp)
    \/ Start
    \/ Reset
    \/ EmergencyStop
    \/ \E o \in Outcomes : CloseResponse(o)
    \/ \E t \in STATIC_TOKENS, price \in Prices \cup RulePrices :
          UpdatePrice(getFullSymbol(t), price)
    \/ \E p \in Procs : TickStart(p)
    \/ \E p \in Procs, o \in Outcomes : OrderResponse(p, o)

SpecHistory == Init /\ [][NextHistory]_vars

\* ------------------------------------------------------------------------
\* Properties
\* ------------------------------------------------------------------------
Awaiting == {p \in Procs : proc[p].pc = "awaitOrder"}

pendingSymbol(p) == getFullSymbol(proc[p].pending.token)

Returned == {returned[i] : i \in DOMAIN returned}

\* C1: at most one exchange call per symbol is outstanding; an execute
\* entered while another invocation is suspended in placeOrder for the same
\* symbol returns 'Order already executing', and no other execute does.
C1_AtMostOneInFlight ==
    /\ \A p, q \in Awaiting : p # q => pendingSymbol(p) # pendingSymbol(q)
    /\ \A p \in Awaiting : ~proc[p].pending.concurrent
    /\ \A r \in Returned :
          r.concurrent <=> r.message = "Order already executing"

C1_Witness ==
    \E r \in Returned :
        /\ r.concurrent
        /\ r.message = "Order already executing"
        /\ \E p \in Awaiting : proc[p].pending.token = r.signal.token

\* C2: a symbol is in executingOrders exactly while an execute for it is
\* between its acquisition and its return.
C2_MarkerIffInFlight ==
    executingOrders = {pendingSymbol(p) : p \in Awaiting}

C2_Witness ==
    \E r \in Returned :
        /\ r.message \in {"fault", "Maximum positions reached",
                          "Insufficient balance"}
        /\ getFullSymbol(r.signal.token) \notin executingOrders

\* C3: the orders the exchange accepted and the trades of the ledger
\* correspond one to one.
C3_OrdersMatchTrades ==
    /\ Len(exchangeOrders) = Len(tradeHistory)
    /\ \A i \in DOMAIN exchangeOrders :
          /\ exchangeOrders[i].symbol = getFullSymbol(tradeHistory[i].symbol)
          /\ exchangeOrders[i].side = "Buy" <=> tradeHistory[i].type = "buy"

\* balance, the open positions with quantity and entry price, the trade
\* history and the counters
ledgerView ==
    <<balance,
      [t \in DOMAIN positions |-> <<positions[t].amount, positions[t].buyPrice>>],
      tradeHistory, stats>>

\* the step is the return of an execute whose order the exchange accepted
OrderAccepted == Len(exchangeOrders') = Len(exchangeOrders) + 1

\* the step appends a trade to the history
TradeRecorded == Len(tradeHistory') = Len(tradeHistory) + 1

\* C4: the ledger changes only in a step in which placeOrder answered with
\* success and the call it answered returned success; a step in which the
\* execute calls return only rejections and faults leaves the ledger as it is.
C4_LedgerOnlyOnAcceptedOrder ==
    [][ledgerView' # ledgerView =>
          /\ OrderAccepted
          /\ returned' # <<>>
          /\ returned'[1].success
          /\ \A i \in 2..Len(returned') : ~returned'[i].success]_vars

C4_Witness ==
    \E r \in Returned :
        /\ r.message \in {"Bybit order failed", "fault"}
        /\ r.signal.type = "sell"
        /\ r.signal.token \in DOMAIN positions

\* C5: a recorded buy lowers balance by exactly the total of its Trade, a
\* recorded sell raises balance by exactly the total of its Trade, which is
\* the quantity of the position times the sell price; balance changes in no
\* other step.
C5_BalanceConservation ==
    [][/\ TradeRecorded =>
            LET t == tradeHistory'[1]
            IN  IF t.type = "buy"
                THEN /\ balance' = RatSub(balance, t.total)
                     /\ t.total = RatMul(t.amount, RatInt(t.price))
                ELSE /\ balance' = RatAdd(balance, t.total)
                     /\ t.total = RatMul(positions[t.symbol].amount,
                                         RatInt(t.price))
       /\ balance' # balance => TradeRecorded]_vars

C5_Witness ==
    /\ tradeHistory # <<>>
    /\ tradeHistory[1].type = "sell"
    /\ tradeHistory[1].price # tradeHistory[1].buyPrice

\* C6: balance is never negative, also with tradeAmountPercent above 100.
C6_BalanceNonNegative == balance[1] >= 0

C6_Witness ==
    /\ config.tradeAmountPercent > 100
    /\ \E r \in Returned : r.message = "Insufficient balance"

\* C7: while maxPositions is not changed the number of open positions stays
\* within it; a ledger buy at capacity returns 'Maximum positions reached'
\* and leaves the ledger and the tracked extrema as they are.
C7_MaxPositions ==
    [][/\ (/\ config'.maxPositions = config.maxPositions
           /\ Cardinality(DOMAIN positions) <= config.maxPositions)
          => Cardinality(DOMAIN positions') <= config'.maxPositions
       /\ \A p \in Awaiting :
            (/\ OrderAccepted
             /\ exchangeOrders'[1].symbol = pendingSymbol(p)
             /\ proc[p].pending.type = "buy"
             /\ Cardinality(DOMAIN positions) >= config.maxPositions)
            => /\ returned'[1].message = "Maximum positions reached"
               /\ ~returned'[1].success
               /\ UNCHANGED <<balance, positions, tradeHistory, stats,
                              botMonitoredTokens>>]_vars

C7_Witness ==
    /\ Cardinality(DOMAIN positions) = config.maxPositions
    /\ \E r \in Returned : r.message = "Maximum positions reached"

\* C8: the quantity and the entry price of an open position stay as the buy
\* that opened it set them, until the position is sold.
C8_PositionUnchangedWhileHeld ==
    [][\A t \in (DOMAIN positions) \cap (DOMAIN positions') :
          /\ positions'[t].amount = positions[t].amount
          /\ positions'[t].buyPrice = positions[t].buyPrice]_vars

\* C9: a position is opened with peakPrice = entry price, its peakPrice
\* never decreases while it is held, and peakPrice >= entry price always.
C9_PeakMonotone ==
    /\ [](\A t \in DOMAIN positions :
            positions[t].peakPrice >= positions[t].buyPrice)
    /\ [][\A t \in DOMAIN positions' :
            IF /\ TradeRecorded
               /\ tradeHistory'[1].type = "buy"
               /\ tradeHistory'[1].symbol = t
            THEN /\ positions'[t].peakPrice = positions'[t].buyPrice
                 /\ positions'[t].buyPrice = tradeHistory'[1].price
            ELSE /\ t \in DOMAIN positions
                 /\ positions'[t].peakPrice >= positions[t].peakPrice]_vars

C9_Witness ==
    \E t \in DOMAIN positions : positions[t].peakPrice > positions[t].buyPrice

\* the step is MarketData.resetTokenMonitoring of token t
IsReset(t) ==
    /\ mdMonitoredTokens'[t].currentPrice = mdMonitoredTokens[t].currentPrice
    /\ mdMonitoredTokens'[t].highestPrice = mdMonitoredTokens[t].currentPrice
    /\ mdMonitoredTokens'[t].lowestPrice = mdMonitoredTokens[t].currentPrice

\* C10: every record of MarketData.monitoredTokens has highestPrice >=
\* currentPrice >= lowestPrice >= 0, records are never removed, and except
\* in a reset highestPrice never decreases and lowestPrice never increases.
\* The extrema TradingBot keeps for its buy rule are ordered and
\* non-negative too and change the same way except when a trade resets them.
C10_TrackedExtrema ==
    /\ [](\A t \in DOMAIN mdMonitoredTokens :
            /\ mdMonitoredTokens[t].highestPrice >= mdMonitoredTokens[t].currentPrice
            /\ mdMonitoredTokens[t].currentPrice >= mdMonitoredTokens[t].lowestPrice
            /\ mdMonitoredTokens[t].lowestPrice >= 0)
    /\ [](\A t \in DOMAIN botMonitoredTokens :
            /\ botMonitoredTokens[t].highestPrice >= botMonitoredTokens[t].lowestPrice
            /\ botMonitoredTokens[t].lowestPrice >= 0)
    /\ [][/\ DOMAIN mdMonitoredTokens \subseteq DOMAIN mdMonitoredTokens'
          /\ \A t \in DOMAIN mdMonitoredTokens :
               \/ IsReset(t)
               \/ /\ mdMonitoredTokens'[t].highestPrice >= mdMonitoredTokens[t].highestPrice
                  /\ mdMonitoredTokens'[t].lowestPrice <= mdMonitoredTokens[t].lowestPrice
          /\ DOMAIN botMonitoredTokens \subseteq DOMAIN botMonitoredTokens'
          /\ \A t \in DOMAIN botMonitoredTokens :
               IF TradeRecorded /\ tradeHistory'[1].symbol = t
               THEN /\ botMonitoredTokens'[t].highestPrice = tradeHistory'[1].price
                    /\ botMonitoredTokens'[t].lowestPrice = tradeHistory'[1].price
               ELSE /\ botMonitoredTokens'[t].highestPrice >= botMonitoredTokens[t].highestPrice
                    /\ botMonitoredTokens'[t].lowestPrice <= botMonitoredTokens[t].lowestPrice]_vars

C10_Witness ==
    \E t \in DOMAIN mdMonitoredTokens :
        /\ mdMonitoredTokens[t].highestPrice > mdMonitoredTokens[t].currentPrice
        /\ mdMonitoredTokens[t].lowestPrice < mdMonitoredTokens[t].highestPrice
        /\ mdMonitoredTokens[t].lowestPrice = mdMonitoredTokens[t].currentPrice

\* the signal of the exchange call the invocation rec is suspended in
callSignal(rec) ==
    [type |-> rec.pending.type, token |-> rec.pending.token,
     reason |-> rec.pending.reason]

\* the signals of the invocation rec whose execute has not returned
signalsOf(rec) ==
    IF rec.pc = "awaitOrder" THEN <<callSignal(rec)>> \o rec.signals
    ELSE rec.signals

\* the signals of a sequence of results
resultSignals(results) == [i \in DOMAIN results |-> results[i].signal]

\* the signals the tick of invocation p emitted, in a step that is this tick
emittedBy(p) == resultSignals(returned') \o signalsOf(proc'[p])

\* the tick of invocation p emitted a signal of this type for token t
emits(p, type, t) ==
    \E i \in DOMAIN emittedBy(p) :
        emittedBy(p)[i].type = type /\ emittedBy(p)[i].token = t

\* C11: a tick emits a buy signal for a symbol with a positive tracked low
\* if and only if the symbol has no open position, the rise of the current
\* price over the tracked low is at least buyThreshold percent (a rise of
\* exactly buyThreshold percent included) and fewer than maxPositions
\* positions are open.
C11_BuySignal ==
    [][\A p \in Procs : TickStart(p) =>
          \A t \in DOMAIN mdMonitoredTokens :
            LET low     == botMonitoredTokens'[t].lowestPrice
                current == mdMonitoredTokens[t].currentPrice
            IN  low > 0 =>
                  (emits(p, "buy", t) <=>
                     /\ t \notin DOMAIN positions
                     /\ (current - low) * 100 >= config.buyThreshold * low
                     /\ Cardinality(DOMAIN positions) < config.maxPositions)]_vars

C11_Witness ==
    \E p \in Awaiting :
        LET t == proc[p].pending.token
        IN  /\ proc[p].pending.type = "buy"
            /\ botMonitoredTokens[t].lowestPrice > 0
            /\ (mdMonitoredTokens[t].currentPrice
                  - botMonitoredTokens[t].lowestPrice) * 100
                 = config.buyThreshold * botMonitoredTokens[t].lowestPrice

\* C12: a tick raises the peak of a held position to the maximum of the
\* peak and the current price, and emits a sell signal for it if and only
\* if the drop of the current price from that peak is at least
\* sellThreshold percent, whatever the entry price.
C12_SellSignal ==
    [][\A p \in Procs : TickStart(p) =>
          \A t \in (DOMAIN positions) \cap (DOMAIN mdMonitoredTokens) :
            LET current == mdMonitoredTokens[t].currentPrice
                peak    == IF current > positions[t].peakPrice THEN current
                           ELSE positions[t].peakPrice
            IN  /\ positions'[t].peakPrice = peak
                /\ positions'[t].buyPrice = positions[t].buyPrice
                /\ emits(p, "sell", t) <=>
                     (peak - current) * 100 >= config.sellThreshold * peak]_vars

C12_Witness ==
    \E p \in Awaiting :
        LET t == proc[p].pending.token
        IN  /\ proc[p].pending.type = "sell"
            /\ t \in DOMAIN positions
            /\ mdMonitoredTokens[t].currentPrice > positions[t].buyPrice
            /\ positions[t].peakPrice > mdMonitoredTokens[t].currentPrice

\* C13: an invocation is suspended in placeOrder only for a symbol no other
\* invocation has an order outstanding for, for a buy whose trade amount is
\* at least minTradeAmount, and for a sell of a symbol with an open
\* position; a call that returns 'Order already executing', 'Trade amount
\* below minimum' or, with no order accepted in the step, 'No position
\* found' has not been suspended in placeOrder.
C13_NoOrderWhenRejected ==
    [][/\ \A p \in Procs :
            (proc'[p].pc = "awaitOrder" /\ proc'[p] # proc[p])
            => /\ getFullSymbol(proc'[p].pending.token)
                    \notin {pendingSymbol(q) : q \in Awaiting \ {p}}
               /\ proc'[p].pending.type = "buy"
                    => ~RatLt(RatMul(balance', Rat(config.tradeAmountPercent, 100)),
                              RatInt(config.minTradeAmount))
               /\ proc'[p].pending.type = "sell"
                    => proc'[p].pending.token \in DOMAIN positions'
       /\ \A i \in DOMAIN returned' :
            (\/ returned'[i].message \in {"Order already executing",
                                         "Trade amount below minimum"}
             \/ returned'[i].message = "No position found" /\ ~OrderAccepted)
            => \A p \in Awaiting :
                 proc'[p] # proc[p] => returned'[i].signal # callSignal(proc[p])]_vars

C13_Witness ==
    /\ \E r \in Returned :
          /\ r.message = "No position found"
          /\ r.signal.reason = "Price dropped from peak"
    /\ Len(exchangeOrders) = Len(tradeHistory)

\* C14: a sell of the ledger for a symbol with no open position fails with
\* 'No position found', also when the exchange has accepted the order, and
\* executeSell returns the same message without an order when the position
\* is missing at its start.  Such a call changes nothing: when no call of
\* the step succeeded, balance, positions, history, counters and tracked
\* extrema are unchanged, and otherwise the step records the one trade of
\* the call that succeeded and leaves the extrema of the symbol alone.
C14_SellWithoutPosition ==
    [][/\ \A p \in Awaiting :
            (/\ proc'[p] # proc[p]
             /\ OrderAccepted
             /\ proc[p].pending.type = "sell"
             /\ proc[p].pending.token \notin DOMAIN positions)
            => returned'[1].message = "No position found"
       /\ \A i \in DOMAIN returned' :
            (returned'[i].message = "No position found")
            => LET t   == returned'[i].signal.token
                   won == {j \in DOMAIN returned' : returned'[j].success}
               IN  /\ ~returned'[i].success
                   /\ returned'[i].signal.type = "sell"
                   /\ t \notin DOMAIN positions'
                   /\ IF won = {}
                      THEN UNCHANGED <<balance, positions, tradeHistory, stats,
                                       botMonitoredTokens>>
                      ELSE /\ TradeRecorded
                           /\ Tail(tradeHistory') = tradeHistory
                           /\ tradeHistory'[1].symbol # t
                           /\ stats'.totalTrades = stats.totalTrades + 1
                           /\ DOMAIN botMonitoredTokens' = DOMAIN botMonitoredTokens
                           /\ t \in DOMAIN botMonitoredTokens
                                => botMonitoredTokens'[t] = botMonitoredTokens[t]]_vars

C14_Witness ==
    /\ exchangeOrders # <<>>
    /\ exchangeOrders[1].side = "Sell"
    /\ \E r \in Returned :
          /\ r.message = "No position found"
          /\ getFullSymbol(r.signal.token) = exchangeOrders[1].symbol
    /\ tradeHistory = <<>>

\* C15: a call returns 'Order already executing' only when another
\* invocation has an order outstanding for the same symbol; an order
\* outstanding for another symbol does not reject it.
C15_OtherSymbolsProceed ==
    \A r \in Returned :
        r.message = "Order already executing"
        => \E q \in Awaiting : pendingSymbol(q) = getFullSymbol(r.signal.token)

C15_Witness ==
    \E p, q \in Awaiting :
        /\ pendingSymbol(p) # pendingSymbol(q)
        /\ executingOrders = {pendingSymbol(p), pendingSymbol(q)}

\* the signals in the sequence sigs
signalSet(sigs) == {sigs[i] : i \in DOMAIN sigs}

\* C16: when placeOrder has answered, the execute that called it returns
\* in the same step whatever the answer was, at most one order is added at
\* the exchange, and the next exchange call of the invocation, if any, is
\* for a later signal.
C16_OneOrderPerExecute ==
    [][\A p \in Awaiting :
          proc'[p] # proc[p]
          => /\ returned' # <<>>
             /\ returned'[1].signal = callSignal(proc[p])
             /\ Len(exchangeOrders') <= Len(exchangeOrders) + 1
             /\ proc'[p].pc = "awaitOrder"
                  => /\ callSignal(proc'[p]) # callSignal(proc[p])
                     /\ callSignal(proc'[p]) \in signalSet(proc[p].signals)]_vars

C16_Witness ==
    /\ returned # <<>>
    /\ returned[1].message \in {"Bybit order failed", "fault"}
    /\ exchangeOrders = <<>>
    /\ \E p \in Awaiting : proc[p].pending.token # returned[1].signal.token

\* C17: the signals of a tick are executed one at a time in the order the
\* tick emitted them, each returns one result, and the signals behind a
\* failed one are still executed.
C17_SignalsInOrder ==
    [][\A p \in Procs :
          /\ TickStart(p)
             => updateMonitoring(botMonitoredTokens, positions,
                                 mdMonitoredTokens, config).signals
                  = emittedBy(p)
          /\ (p \in Awaiting /\ proc'[p] # proc[p])
             => signalsOf(proc[p]) = emittedBy(p)]_vars

C17_Witness ==
    /\ Len(returned) >= 2
    /\ ~returned[1].success
    /\ returned[1].message \in {"Bybit order failed", "fault"}
    /\ returned[2].signal.token # returned[1].signal.token

visitedByCloser == {closer.visited[i] : i \in DOMAIN closer.visited}

\* C18: closeAllPositions calls executeSell for exactly the symbols that
\* were held when it was called.
C18_ClosesSnapshot ==
    /\ visitedByCloser \subseteq closer.open
    /\ (closer.calls > 0 /\ closer.pc = "idle") => visitedByCloser = closer.open

\* the step records the buy of the scenario: balance 10000,
\* tradeAmountPercent 25, minTradeAmount 1, no open position, a tracked low
\* of 100 when the signal was emitted, and the buy made at 102
ScenarioBuy ==
    /\ TradeRecorded
    /\ tradeHistory'[1].type = "buy"
    /\ tradeHistory'[1].price = 102
    /\ botMonitoredTokens[tradeHistory'[1].symbol].lowestPrice = 100
    /\ balance = RatInt(10000)
    /\ config.tradeAmountPercent = 25
    /\ config.minTradeAmount = 1
    /\ positions = EmptyMap

\* the tick of the scenario: a tracked low of 100, a current price of 102
\* and no open position give a buy signal
ScenarioSignal ==
    \A p \in Procs :
        (/\ TickStart(p)
         /\ positions = EmptyMap
         /\ config.buyThreshold = 2)
        => \A t \in DOMAIN mdMonitoredTokens :
             (/\ botMonitoredTokens'[t].lowestPrice = 100
              /\ mdMonitoredTokens[t].currentPrice = 102)
             => emits(p, "buy", t)

\* C19 as stated: the buy of the scenario yields notional 2500, quantity
\* 25, balance 7500 and one position with entry = peak = 102.
C19_ScenarioAsStated ==
    [][/\ ScenarioSignal
       /\ ScenarioBuy =>
            LET t == tradeHistory'[1].symbol
            IN  /\ tradeHistory'[1].total = RatInt(2500)
                /\ tradeHistory'[1].amount = RatInt(25)
                /\ balance' = RatInt(7500)
                /\ DOMAIN positions' = {t}
                /\ positions'[t].amount = RatInt(25)
                /\ positions'[t].buyPrice = 102
                /\ positions'[t].peakPrice = 102]_vars

\* C19: the buy of the scenario yields notional 2500, quantity 2500/102
\* (about 24.5098), balance 7500 and one position with entry = peak = 102.
C19_Scenario ==
    [][/\ ScenarioSignal
       /\ ScenarioBuy =>
            LET t == tradeHistory'[1].symbol
            IN  /\ tradeHistory'[1].total = RatInt(2500)
                /\ tradeHistory'[1].amount = Rat(2500, 102)
                /\ toFixed4(tradeHistory'[1].amount) = 245098
                /\ balance' = RatInt(7500)
                /\ DOMAIN positions' = {t}
                /\ positions'[t].amount = Rat(2500, 102)
                /\ positions'[t].buyPrice = 102
                /\ positions'[t].peakPrice = 102]_vars

C19_Witness ==
    /\ balance = RatInt(7500)
    /\ Len(tradeHistory) = 1
    /\ tradeHistory[1].price = 102
    /\ tradeHistory[1].total = RatInt(2500)
    /\ \E t \in DOMAIN positions :
          /\ positions[t].buyPrice = 102
          /\ positions[t].peakPrice = 102
          /\ positions[t].amount = Rat(2500, 102)

\* C20: a recorded sell adds one to totalTrades and one to exactly one of
\* winningTrades and losingTrades: to winningTrades when its profit, the
\* proceeds less quantity times entry price, is above zero, to losingTrades
\* otherwise, a profit of zero included.
C20_WinOrLoss ==
    [][(TradeRecorded /\ tradeHistory'[1].type = "sell") =>
          LET t == tradeHistory'[1]
          IN  /\ t.profit = RatSub(t.total, RatMul(t.amount, RatInt(t.buyPrice)))
              /\ stats'.totalTrades = stats.totalTrades + 1
              /\ IF t.profit[1] > 0
                 THEN /\ stats'.winningTrades = stats.winningTrades + 1
                      /\ stats'.losingTrades = stats.losingTrades
                 ELSE /\ stats'.winningTrades = stats.winningTrades
                      /\ stats'.losingTrades = stats.losingTrades + 1]_vars

C20_Witness ==
    /\ tradeHistory # <<>>
    /\ tradeHistory[1].type = "sell"
    /\ tradeHistory[1].profit = RatInt(0)
    /\ stats.losingTrades = 1
    /\ stats.winningTrades = 0

\* the variables MarketData.updatePrice does not own
notTracker == <<initialized, config, balance, initialBalance, positions,
                botMonitoredTokens, tradeHistory, stats, executingOrders,
                proc, exchangeOrders, configUpdates, isRunning, isPaused,
                closer, tickTimer, streamPeak>>

\* C21 as stated: updatePrice for a symbol whose token has no record in
\* monitoredTokens leaves the records and the stored prices as they are.
C21_NoOpAsStated ==
    [][\A s \in Symbols, price \in Prices :
          (/\ UpdatePrice(s, price)
           /\ getBaseToken(s) \notin DOMAIN mdMonitoredTokens)
          => UNCHANGED <<mdMonitoredTokens, prices>>]_vars

\* C21: updatePrice for a symbol whose token has no record in
\* monitoredTokens creates and alters no record; of the stored prices it
\* sets the one of that symbol to the delivered price and leaves the
\* others as they are.
C21_NoRecordTouched ==
    [][\A s \in Symbols, price \in Prices :
          (/\ UpdatePrice(s, price)
           /\ getBaseToken(s) \notin DOMAIN mdMonitoredTokens)
          => /\ UNCHANGED mdMonitoredTokens
             /\ DOMAIN prices' = DOMAIN prices \cup {s}
             /\ prices'[s] = price
             /\ \A x \in DOMAIN prices \ {s} : prices'[x] = prices[x]
             /\ UNCHANGED notTracker]_vars

C21_Witness ==
    \E s \in DOMAIN prices :
        /\ getBaseToken(s) \notin DOMAIN mdMonitoredTokens
        /\ prices[s] \in Prices
        /\ priceUpdates > 0

\* C22: when a buy or a sell has been recorded for a symbol, the record
\* of the symbol in MarketData.monitoredTokens has highestPrice =
\* lowestPrice = currentPrice, and the low TradingBot keeps for the next
\* evaluation of the symbol is the price of the trade.
C22_ExtremaResetAfterTrade ==
    [][TradeRecorded =>
          LET t == tradeHistory'[1].symbol
          IN  /\ mdMonitoredTokens'[t].highestPrice
                    = mdMonitoredTokens'[t].currentPrice
              /\ mdMonitoredTokens'[t].lowestPrice
                    = mdMonitoredTokens'[t].currentPrice
              /\ botMonitoredTokens'[t].lowestPrice = tradeHistory'[1].price
              /\ tradeHistory'[1].price = mdMonitoredTokens'[t].currentPrice]_vars

\* the step records a buy
BuyRecorded == TradeRecorded /\ tradeHistory'[1].type = "buy"

\* the call whose answer made the step record a trade
answeredCall ==
    IF \E p \in Procs : proc[p].pc = "awaitOrder" /\ proc'[p] # proc[p]
    THEN proc[CHOOSE p \in Procs :
                 proc[p].pc = "awaitOrder" /\ proc'[p] # proc[p]].pending
    ELSE closer.pending

\* C23: the quantity of a recorded buy, rounded to four decimals, is the
\* quantity of the order the exchange accepted, its notional is the
\* tradeAmount executeBuy computed before placeOrder, and the position
\* holds the quantity of the trade.
C23_LedgerMatchesOrder ==
    [][BuyRecorded =>
          LET trade == tradeHistory'[1]
              order == exchangeOrders'[1]
          IN  /\ order.symbol = getFullSymbol(trade.symbol)
              /\ order.qty = answeredCall.quantity
              /\ toFixed4(trade.amount) = order.qty
              /\ trade.total = answeredCall.notional
              /\ positions'[trade.symbol].amount = trade.amount]_vars

\* C24: when a tick evaluates the sell rule for a held position, the
\* peakPrice it uses is the highest of the entry price and the prices the
\* stream delivered for the token since the position was opened.
C24_PeakIsHighestDelivered ==
    [][\A p \in Procs : TickStart(p) =>
          \A t \in DOMAIN positions :
              t \in DOMAIN mdMonitoredTokens =>
                  positions'[t].peakPrice = streamPeak[t]]_vars

\* the step records a sell
SellRecorded == TradeRecorded /\ tradeHistory'[1].type = "sell"

\* C25 as stated: the quantity of the order of a recorded sell is the
\* quantity of the position, no position of the symbol remains, and the
\* trade records that quantity, the entry price and the peak of the
\* position.
C25_SellClosesAsStated ==
    [][SellRecorded =>
          LET trade == tradeHistory'[1]
              order == exchangeOrders'[1]
              position == positions[trade.symbol]
          IN  /\ order.symbol = getFullSymbol(trade.symbol)
              /\ order.side = "Sell"
              /\ order.qty = answeredCall.quantity
              /\ Rat(order.qty, 10000) = position.amount
              /\ trade.symbol \notin DOMAIN positions'
              /\ trade.amount = position.amount
              /\ trade.buyPrice = position.buyPrice
              /\ trade.peakPrice = position.peakPrice]_vars

\* C25: the quantity of the order of a recorded sell is the quantity of
\* the position rounded to four decimals, as it was computed when the sell
\* began; no position of the symbol remains, and the trade records the
\* quantity, the entry price and the peak of the position.
C25_SellClosesPosition ==
    [][SellRecorded =>
          LET trade == tradeHistory'[1]
              order == exchangeOrders'[1]
              position == positions[trade.symbol]
          IN  /\ order.symbol = getFullSymbol(trade.symbol)
              /\ order.side = "Sell"
              /\ order.qty = answeredCall.quantity
              /\ order.qty = toFixed4(position.amount)
              /\ trade.symbol \notin DOMAIN positions'
              /\ trade.amount = position.amount
              /\ trade.buyPrice = position.buyPrice
              /\ trade.peakPrice = position.peakPrice]_vars

C25_Witness ==
    /\ tradeHistory # <<>>
    /\ tradeHistory[1].type = "sell"
    /\ tradeHistory[1].symbol \notin DOMAIN positions
    /\ exchangeOrders # <<>>
    /\ exchangeOrders[1].side = "Sell"
    /\ exchangeOrders[1].qty = toFixed4(tradeHistory[1].amount)
    /\ Rat(exchangeOrders[1].qty, 10000) # tradeHistory[1].amount

\* C26: a signal evaluation (updateMonitoring, at the start of a tick)
\* leaves balance, the open positions with their quantity and entry price,
\* the trade history and the counters as they are; it changes at most the
\* extrema TradingBot tracks and the peakPrice of held positions.
C26_EvaluationFrame ==
    [][\A p \in Procs : TickStart(p) =>
          /\ ledgerView' = ledgerView
          /\ initialBalance' = initialBalance
          /\ \A t \in DOMAIN positions :
                [positions'[t] EXCEPT !.peakPrice = 0]
                  = [positions[t] EXCEPT !.peakPrice = 0]
          /\ UNCHANGED <<config, mdMonitoredTokens, prices, exchangeOrders>>]_vars

C26_Witness ==
    /\ returned = <<>>
    /\ \A p \in Procs : proc[p].pc = "idle"
    /\ \E t \in DOMAIN positions :
          /\ positions[t].peakPrice > positions[t].buyPrice
          /\ positions[t].peakPrice = mdMonitoredTokens[t].currentPrice
          /\ botMonitoredTokens[t].highestPrice = positions[t].peakPrice

\* prices a token may have when its monitoring starts
StartPrices == Prices \cup TickerPrices \cup {0}

\* monitorToken on the map mon: a record for an absent token, nothing for
\* a token that has one, and a second call changes nothing
monitorTokenOnce(mon) ==
    \A t \in Tokens, x, y \in StartPrices :
        LET once == monitorToken(mon, t, x)
        IN  /\ t \in DOMAIN mon => once = mon
            /\ t \notin DOMAIN mon =>
                  /\ DOMAIN once = DOMAIN mon \cup {t}
                  /\ once[t].highestPrice = x
                  /\ once[t].lowestPrice = x
                  /\ \A u \in DOMAIN mon : once[u] = mon[u]
            /\ monitorToken(once, t, y) = once

\* the insertion of refreshTopGainers on the map md: records for the
\* absent gainers, nothing for a token that has one, and a second call
\* with the same gainers changes nothing, whatever the prices are then
refreshOnce(md, pr) ==
    \A g \in SUBSET GainerTokens, s \in Symbols, x \in Prices :
        LET once == refreshTopGainers(md, pr, g)
        IN  /\ DOMAIN once = DOMAIN md \cup g
            /\ \A t \in DOMAIN md : once[t] = md[t]
            /\ \A t \in g \ DOMAIN md :
                  /\ once[t].highestPrice = once[t].currentPrice
                  /\ once[t].lowestPrice = once[t].currentPrice
            /\ refreshTopGainers(once, MapSet(pr, s, x), g) = once

\* C27: monitorToken and the insertion of refreshTopGainers add a record
\* only for a token that has none and leave an existing record with its
\* highest and lowest price as it is, so that repeated calls equal one.
C27_StartMonitoringIdempotent ==
    /\ [](monitorTokenOnce(botMonitoredTokens) /\ refreshOnce(mdMonitoredTokens, prices))
    /\ [][\A g \in SUBSET GainerTokens : RefreshTopGainers(g) =>
             /\ DOMAIN mdMonitoredTokens' = DOMAIN mdMonitoredTokens \cup g
             /\ \A t \in DOMAIN mdMonitoredTokens :
                   mdMonitoredTokens'[t] = mdMonitoredTokens[t]]_vars
    /\ [][\A p \in Procs : TickStart(p) =>
             \A t \in DOMAIN botMonitoredTokens :
                 botMonitoredTokens'[t] =
                     trackExtrema(botMonitoredTokens, t,
                                  IF t \in DOMAIN mdMonitoredTokens
                                  THEN mdMonitoredTokens[t].currentPrice
                                  ELSE botMonitoredTokens[t].lowestPrice)[t]]_vars

C27_Witness ==
    \E t \in GainerTokens :
        /\ t \in DOMAIN mdMonitoredTokens
        /\ mdMonitoredTokens[t].lowestPrice = 0
        /\ mdMonitoredTokens[t].highestPrice > 0
        /\ t \in DOMAIN botMonitoredTokens
        /\ botMonitoredTokens[t].lowestPrice = 0
        /\ botMonitoredTokens[t].highestPrice > 0

\* the sum of amount * buyPrice over the positions of the tokens in S
RECURSIVE costBasis(_, _)
costBasis(pos, S) ==
    IF S = {} THEN RatInt(0)
    ELSE LET t == CHOOSE u \in S : TRUE
         IN  RatAdd(RatMul(pos[t].amount, RatInt(pos[t].buyPrice)),
                    costBasis(pos, S \ {t}))

\* the sum of profit over the sells among the first n trades of history
RECURSIVE realized(_, _)
realized(history, n) ==
    IF n = 0 THEN RatInt(0)
    ELSE RatAdd(IF history[n].type = "sell" THEN history[n].profit
                ELSE RatInt(0),
                realized(history, n - 1))

\* C28: balance plus the cost basis (amount * buyPrice) of the open
\* positions equals initialBalance plus the profit of the sells in the
\* history.
C28_AccountingIdentity ==
    RatAdd(balance, costBasis(positions, DOMAIN positions))
        = RatAdd(initialBalance, realized(tradeHistory, Len(tradeHistory)))

\* App.emergencyStop has returned and the application was not started
\* again
EmergencyStopped == closer.calls > 0 /\ closer.pc = "idle" /\ ~isRunning

\* C29: on an exchange that accepts every order, no position is open once
\* App.emergencyStop has returned.
C29_FlatAfterEmergencyStop ==
    EmergencyStopped => DOMAIN positions = {}

\* pause() or stop() has returned and neither resume() nor start() has
\* taken effect since
Halted == initialized /\ (isPaused \/ ~isRunning)

\* the step calls placeOrder
OrderPlaced ==
    \E p \in Procs : proc'[p].pc = "awaitOrder" /\ proc'[p] # proc[p]

\* C30: between the return of pause() or stop() and the next resume() or
\* start(), no step calls placeOrder and no step changes the ledger.
C30_QuietWhileHalted ==
    [][(Halted /\ Halted') =>
          /\ ~OrderPlaced
          /\ UNCHANGED <<balance, positions, tradeHistory, stats>>]_vars

\* C31: at most one interval timer of App.update is set, isRunning holds
\* exactly when one is set and updateInterval holds it, and start() while
\* isRunning changes nothing.
C31_OneTickTimer ==
    /\ tickTimer.active <= 1
    /\ isRunning <=> tickTimer.active = 1
    /\ isRunning <=> tickTimer.handle
    /\ isRunning => start(Lifecycle) = Lifecycle

C31_Witness ==
    /\ isRunning
    /\ isPaused
    /\ tickTimer.active = 1
    /\ closer.calls > 0
    /\ closer.pc = "idle"
    /\ tradeHistory # <<>>

\* the position of t is held at a price at least sellThreshold percent
\* below its peak while the application runs, is not paused and the
\* exchange accepts orders
StopDue(t) ==
    /\ isRunning
    /\ ~isPaused
    /\ Len(exchangeOrders) < MaxOrders
    /\ t \in DOMAIN positions
    /\ t \in DOMAIN mdMonitoredTokens
    /\ (positions[t].peakPrice - mdMonitoredTokens[t].currentPrice) * 100
          >= config.sellThreshold * positions[t].peakPrice

\* C32: a position whose trailing stop is due does not stay due for ever:
\* it is sold and removed from the ledger unless the price recovers or the
\* application is paused first.
C32_StopEventuallySells ==
    \A t \in Tokens : StopDue(t) ~> ~StopDue(t)

C32_Witness ==
    /\ tradeHistory # <<>>
    /\ tradeHistory[1].type = "sell"
    /\ tradeHistory[1].reason = "Price dropped from peak"
    /\ tradeHistory[1].symbol \notin DOMAIN positions
    /\ mdMonitoredTokens[tradeHistory[1].symbol].currentPrice
          = tradeHistory[1].price
    /\ isRunning
    /\ ~isPaused

\* C33: no step, a refresh of the top gainers in particular, removes a
\* token from MarketData.monitoredTokens, and every token with an open
\* position has a record there, so that updateMonitoring evaluates it.
C33_MonitoredNeverShrinks ==
    /\ [](DOMAIN positions \subseteq DOMAIN mdMonitoredTokens)
    /\ [](\A t \in DOMAIN positions :
             \E i \in DOMAIN getAllTokensData(mdMonitoredTokens) :
                 getAllTokensData(mdMonitoredTokens)[i] = t)
    /\ [][DOMAIN mdMonitoredTokens \subseteq DOMAIN mdMonitoredTokens']_vars
    /\ [][\A g \in SUBSET GainerTokens : RefreshTopGainers(g) =>
             DOMAIN mdMonitoredTokens' = DOMAIN mdMonitoredTokens \cup g]_vars

C33_Witness ==
    \E t \in GainerTokens :
        /\ t \in DOMAIN positions
        /\ t \in DOMAIN mdMonitoredTokens
        /\ mdMonitoredTokens[t].lowestPrice = 0
        /\ isRunning
        /\ ~isPaused

\* C34: a tick emits no buy signal for a token whose tracked low is 0: a
\* token that entered the monitored set with no known price (price 0) gives
\* no buy signal when its first real price arrives.
C34_NoBuyFromZeroLow ==
    [][\A p \in Procs : TickStart(p) =>
          \A t \in DOMAIN mdMonitoredTokens :
              botMonitoredTokens'[t].lowestPrice = 0 => ~emits(p, "buy", t)]_vars

\* the sell records of a history
sellsOf(history) == {i \in DOMAIN history : history[i].type = "sell"}

\* history new consists of added records followed by the records of old,
\* unchanged and in their order
extends(new, old) ==
    /\ Len(new) >= Len(old)
    /\ \A i \in DOMAIN old : new[Len(new) - Len(old) + i] = old[i]

\* C35: in every state totalTrades is the number of records in
\* tradeHistory and winningTrades + losingTrades is the number of sell
\* records; in every step other than a reset the records tradeHistory held
\* before are still there, unchanged (a step adds records, never removes or
\* alters one); a reset empties the history and the counters.
C35_HistoryMatchesCounters ==
    /\ [](stats.totalTrades = Len(tradeHistory))
    /\ [](stats.winningTrades + stats.losingTrades
            = Cardinality(sellsOf(tradeHistory)))
    /\ [][Reset \/ extends(tradeHistory', tradeHistory)]_vars
    /\ [][Reset => tradeHistory' = <<>> /\ stats'.totalTrades = 0
                     /\ stats'.winningTrades + stats'.losingTrades = 0]_vars

C35_Witness ==
    /\ Len(tradeHistory) = 2
    /\ tradeHistory[1].type = "sell"
    /\ tradeHistory[2].type = "buy"
    /\ tradeHistory[1].profit[1] > 0
    /\ stats = [totalTrades |-> 2, winningTrades |-> 1, losingTrades |-> 0]

====
